---------------------------- MODULE Spec2Model ----------------------------
(* A model of spector's legacy file readers (spector/io/legacy.py), the    *)
(* binary and text block readers and the bit helpers (spector/utils/io.py) *)
(* and the format tables (spector/io/_iofmt.py).                           *)
(*                                                                         *)
(* A file is the sequence of its bytes (0..255).  A decoded value is a     *)
(* record [t, v]: t is the Python type ("int", "bytes", "float") and v the *)
(* integer in a one-element sequence, or the bytes.  A float is kept as    *)
(* the bytes of its IEEE pattern, in file order.                           *)
EXTENDS Integers, Sequences, FiniteSets, TLC

VARIABLES op, arg, file, cursor, handles, pc, ret, err, spec, header, records

vars == <<op, arg, file, cursor, handles, pc, ret, err, spec, header, records>>

(***************************************************************************)
(* Bounds of the model.                                                    *)
(***************************************************************************)
\* longest bit list handed to bits_2_int
MaxBits == 5
\* longest field-spec list handed to read_bin_block directly
MaxFields == 3
\* longest stream handed to read_bin_block directly
MaxStream == 10

(***************************************************************************)
(* Python values.                                                          *)
(***************************************************************************)
None == "<None>"

\* pos=None of read_bin_block (a position is a byte offset >= 0)
NoPos == -1

IntVal(n) == [t |-> "int", v |-> <<n>>]

BytesVal(bs) == [t |-> "bytes", v |-> bs]

FloatVal(bs) == [t |-> "float", v |-> bs]

IntOf(x) == x.v[1]

Min(a, b) == IF a < b THEN a ELSE b

RECURSIVE Pow2(_)
Pow2(n) == IF n = 0 THEN 1 ELSE 2 * Pow2(n - 1)

\* reversed(seq) / list.reverse()
RECURSIVE reversed(_)
reversed(s) == IF s = <<>> THEN <<>> ELSE Append(reversed(Tail(s)), Head(s))

\* a Python slice seq[a:b] with 0 <= a <= b
Slice(s, a, b) == SubSeq(s, a + 1, Min(b, Len(s)))

(***************************************************************************)
(* utils/io.py: bit helpers.                                               *)
(***************************************************************************)
\* [(byte >> i) & 1 for i in range(8)]
Bits8(byte) == [i \in 1..8 |-> (byte \div Pow2(i - 1)) % 2]

RECURSIVE bytes_2_bits(_, _)
bytes_2_bits(bytes_list, swap) ==
    IF bytes_list = <<>> THEN <<>>
    ELSE LET bits8 == Bits8(Head(bytes_list))
         IN  (IF swap THEN reversed(bits8) ELSE bits8)
                 \o bytes_2_bits(Tail(bytes_list), swap)

\* str(b) for b in bits_list, joined
JoinStr(bits_list) == [i \in 1..Len(bits_list) |-> IF bits_list[i] = 0 THEN "0" ELSE "1"]

\* a mutant of IntBase2: the first character is the least significant
RECURSIVE IntBase2_lsb(_)
IntBase2_lsb(text) ==
    IF text = <<>> THEN 0
    ELSE (IF Head(text) = "1" THEN 1 ELSE 0) + 2 * IntBase2_lsb(Tail(text))

\* int(text, base=2) of a non-empty text of "0"/"1"
RECURSIVE IntBase2(_)
IntBase2(text) ==
    IF text = <<>> THEN 0
    ELSE 2 * IntBase2(SubSeq(text, 1, Len(text) - 1))
           + (IF text[Len(text)] = "1" THEN 1 ELSE 0)

\* int('') raises ValueError: bits_2_int is defined on non-empty lists
bits_2_int(bits_list, swap) ==
    IntBase2(JoinStr(IF swap THEN reversed(bits_list) ELSE bits_list))

(***************************************************************************)
(* struct: format codes <<count, char>>, the joined format a sequence of   *)
(* codes.                                                                  *)
(***************************************************************************)
Width(code) ==
    CASE code[2] \in {"x", "s", "c"} -> code[1]
      [] code[2] = "h" -> 2 * code[1]
      [] code[2] \in {"i", "f"} -> 4 * code[1]
      [] code[2] = "d" -> 8 * code[1]

\* struct.calcsize of a joined format under "<" or ">" (no alignment)
RECURSIVE calcsize(_)
calcsize(fmt) == IF fmt = <<>> THEN 0 ELSE Width(Head(fmt)) + calcsize(Tail(fmt))

\* two's complement integer of a byte string, most significant byte first
RECURSIVE SignedBE(_)
SignedBE(bs) ==
    IF Len(bs) = 1 THEN (IF bs[1] >= 128 THEN bs[1] - 256 ELSE bs[1])
    ELSE 256 * SignedBE(SubSeq(bs, 1, Len(bs) - 1)) + bs[Len(bs)]

SignedInt(endian, bs) == SignedBE(IF endian = "<" THEN reversed(bs) ELSE bs)

\* the values one code yields from buf at byte offset off
CodeValues(endian, code, buf, off) ==
    LET n == code[1]
        c == code[2]
        w == Width(<<1, c>>)
        item(k) == SubSeq(buf, off + w * (k - 1) + 1, off + w * k)
    IN  CASE c = "x" -> <<>>
          [] c = "s" -> << BytesVal(SubSeq(buf, off + 1, off + n)) >>
          [] c = "c" -> [k \in 1..n |-> BytesVal(item(k))]
          [] c \in {"h", "i"} -> [k \in 1..n |-> IntVal(SignedInt(endian, item(k)))]
          [] c \in {"f", "d"} -> [k \in 1..n |-> FloatVal(item(k))]

RECURSIVE UnpackCodes(_, _, _, _)
UnpackCodes(endian, fmt, buf, off) ==
    IF fmt = <<>> THEN <<>>
    ELSE CodeValues(endian, Head(fmt), buf, off)
           \o UnpackCodes(endian, Tail(fmt), buf, off + Width(Head(fmt)))

\* a mutant of unpack: a short buffer is zero-filled instead of refused
unpack_padded(endian, fmt, buf) ==
    LET full == [i \in 1..calcsize(fmt) |-> IF i <= Len(buf) THEN buf[i] ELSE 0]
    IN  [ok |-> TRUE, vals |-> UnpackCodes(endian, fmt, full, 0)]

\* struct.unpack: struct.error unless the buffer has exactly calcsize bytes
unpack(endian, fmt, buf) ==
    IF Len(buf) # calcsize(fmt)
    THEN [ok |-> FALSE, vals |-> <<>>]
    ELSE [ok |-> TRUE, vals |-> UnpackCodes(endian, fmt, buf, 0)]

(***************************************************************************)
(* A stream: the bytes and the cursor.                                     *)
(***************************************************************************)
\* f.read(n): the bytes from the cursor, at most n
FileRead(bytes, cur, n) == SubSeq(bytes, cur + 1, Min(cur + n, Len(bytes)))

\* the cursor after f.read(n)
FileTell(bytes, cur, n) == cur + Len(FileRead(bytes, cur, n))

\* dict(zip(keys, vals)): a later pair wins
Zip(keys, vals) ==
    LET n == Min(Len(keys), Len(vals))
    IN  [k \in {keys[i] : i \in 1..n} |->
            vals[CHOOSE i \in 1..n : keys[i] = k /\ \A j \in (i + 1)..n : keys[j] # k]]

\* the names of a field-spec list, None included
FieldNames(ffmt) == [i \in 1..Len(ffmt) |-> ffmt[i][1]]

\* a mutant of read_bin_block's key list: unnamed fields keep a key
FieldKeys_all(ffmt) == FieldNames(ffmt)

\* [k for k, s in ffmt if k is not None]
FieldKeys(ffmt) == SelectSeq(FieldNames(ffmt), LAMBDA k : k # None)

\* ''.join(s for k, s in ffmt)
JoinFmt(ffmt) == [i \in 1..Len(ffmt) |-> ffmt[i][2]]

\* utils/io.py read_bin_block on the stream (bytes, cur): the outcome, the
\* cursor it leaves and the mapping it returns
read_bin_block(bytes, cur, ffmt, pos, endian) ==
    LET fmt == JoinFmt(ffmt)
        nbytes == calcsize(fmt)
        start == IF pos # NoPos THEN pos ELSE cur
        u == unpack(endian, fmt, FileRead(bytes, start, nbytes))
    IN  [ok |-> u.ok,
         cursor |-> FileTell(bytes, start, nbytes),
         fields |-> IF u.ok THEN Zip(FieldKeys(ffmt), u.vals) ELSE <<>>]

(***************************************************************************)
(* io/_iofmt.py: the binary format tables.  F(name, count, char) is the    *)
(* pair (name, "<count><char>").                                           *)
(***************************************************************************)
F(name, n, c) == <<name, <<n, c>> >>

fts1_header_ffmt ==
    << F(None, 14, "x"), F("source", 10, "s"), F(None, 12, "x"), 
       F("dayofyear_begin", 1, "h"), F("year_begin", 1, "h"), 
       F("dayofyear_end", 1, "h"), F("year_end", 1, "h"), 
       F("correction_factor", 1, "f"), F(None, 222, "x"), 
       F("aperture", 1, "f"), F("nb_scan_backward", 1, "h"), 
       F(None, 2, "x"), F("ftype", 12, "s"), F(None, 308, "x"), 
       F("n_points", 1, "i"), F("wavenumber_begin", 1, "d"), 
       F("wavenumber_end", 1, "d"), F("opd", 1, "d"), 
       F("sun_elevation", 1, "f"), F(None, 10, "x"), 
       F("sn_ratio", 1, "h"), F("secz", 1, "f"), F("hour_avg", 1, "f"), 
       F(None, 138, "x"), F("name", 12, "s"), F(None, 68, "x"), 
       F("nb_scan_forward", 1, "h") >>

bruker_header_ffmt ==
    << F(None, 4, "x"), F("name", 12, "s"), F(None, 4, "x"), 
       F("n_points", 1, "i"), F(None, 236, "x"), F("n_points2", 1, "i"), 
       F("n_scan_forward", 1, "i"), F(None, 4, "x"), 
       F("scale_factor", 1, "i"), F("waven_begin_i", 1, "i"), 
       F("waven_begin_d", 1, "i"), F("waven_end_i", 1, "i"), 
       F("waven_end_d", 1, "i"), F("date_block", 4, "s"), 
       F("time_block", 4, "s"), F(None, 16, "x"), F("sn_ratio", 1, "i"), 
       F(None, 36, "x"), F("aperture_id", 1, "i"), F(None, 12, "x"), 
       F("beamsplitter_id", 1, "i"), F(None, 152, "x"), 
       F("laserf_i", 1, "i"), F("laserf_d", 1, "i"), F(None, 32, "x"), 
       F("filter_id", 1, "i"), F(None, 124, "x"), F("source_id", 1, "i"), 
       F(None, 348, "x"), F("resolution_i", 1, "i"), 
       F("resolution_d", 1, "i"), F(None, 92, "x"), 
       F("correction_factor", 1, "f"), F("sun_elevation", 1, "f"), 
       F(None, 124, "x") >>

\* a mutant of spec_header_ffmt: the table ends with the last stamp
spec_header_ffmt_nopad ==
    << F("n_records", 1, "i"), F("created_pc", 20, "s"),
       F("modified_pc", 20, "s"), F("created_hp1000", 20, "s"),
       F("modified_hp1000", 20, "s") >>

spec_header_ffmt ==
    << F("n_records", 1, "i"), F("created_pc", 20, "s"), 
       F("modified_pc", 20, "s"), F("created_hp1000", 20, "s"), 
       F("modified_hp1000", 20, "s"), F(None, 44, "x") >>

spec_record_ffmt ==
    << F("name", 12, "s"), F("hour_begin", 1, "f"), F("hour_end", 1, "f"), 
       F("hour_avg", 1, "f"), F("sun_elevation", 1, "f"), 
       F("air_mass", 1, "f"), F("mec_velocity", 1, "h"), 
       F("filter_io_ratio", 1, "h"), F("sampling_frequency", 1, "i"), 
       F(None, 2, "x"), F("n_points_itf", 1, "h"), 
       F("n_points_fft", 1, "h"), F("source_id", 1, "h"), 
       F("detector_id", 1, "h"), F("beamsplitter_id", 1, "h"), 
       F("filter_id", 1, "h"), F("n_scan_forward", 1, "h"), 
       F("n_scan_backward", 1, "h"), F("sn_ratio", 1, "h"), 
       F("aperture", 1, "f"), F("detector_potential", 1, "h"), 
       F("resistance", 1, "h"), F("tape_id", 1, "h"), 
       F("max_transmittance", 1, "f"), F("band_id", 1, "h"), 
       F("rms_noise", 1, "f"), F("year_avg", 1, "h"), 
       F("dayofyear_avg", 1, "h"), F("year_begin", 1, "h"), 
       F("dayofyear_begin", 1, "h"), F("year_end", 1, "h"), 
       F("dayofyear_end", 1, "h"), F(None, 2, "x"), F("quality", 2, "s"), 
       F(None, 2, "x"), F("temperature", 1, "h"), F("pressure", 1, "h"), 
       F("relative_humidity", 1, "c"), F("tropopause_height", 1, "c"), 
       F("wavenumber_begin", 1, "f"), F("wavenumber_end", 1, "f"), 
       F("n_points", 1, "i"), F("resolution", 1, "f"), 
       F("wavenumber_step", 1, "d") >>

rinsland_datahdr_ffmt ==
    << F("wavenumber_begin", 1, "d"), F("wavenumber_end", 1, "d"), 
       F("wavenumber_step", 1, "d"), F("n_points", 1, "i") >>

\* the byte offset of the named field of a table
RECURSIVE FieldOffset(_, _)
FieldOffset(ffmt, name) ==
    IF Head(ffmt)[1] = name THEN 0
    ELSE Width(Head(ffmt)[2]) + FieldOffset(Tail(ffmt), name)

(***************************************************************************)
(* Text: a str is the sequence of its characters.                          *)
(***************************************************************************)
Digits == <<"0", "1", "2", "3", "4", "5", "6", "7", "8", "9">>

DigitSet == {Digits[i] : i \in 1..10}

Uppers == <<"A", "B", "C", "D", "E", "F", "G", "H", "I", "J", "K", "L",
             "M", "N", "O", "P", "Q", "R", "S", "T", "U", "V", "W", "X",
             "Y", "Z">>

Lowers == <<"a", "b", "c", "d", "e", "f", "g", "h", "i", "j", "k", "l",
             "m", "n", "o", "p", "q", "r", "s", "t", "u", "v", "w", "x",
             "y", "z">>

UpperSet == {Uppers[i] : i \in 1..26}

LowerSet == {Lowers[i] : i \in 1..26}

\* \w on ASCII text
WordSet == DigitSet \cup UpperSet \cup LowerSet \cup {"_"}

DigitValue(ch) == (CHOOSE i \in 1..10 : Digits[i] = ch) - 1

RECURSIVE Pow10(_)
Pow10(n) == IF n = 0 THEN 1 ELSE 10 * Pow10(n - 1)

\* the number a text of decimal digits writes
RECURSIVE DecimalValue(_)
DecimalValue(text) ==
    IF text = <<>> THEN 0
    ELSE 10 * DecimalValue(SubSeq(text, 1, Len(text) - 1)) + DigitValue(text[Len(text)])

AllIn(text, S) == \A i \in 1..Len(text) : text[i] \in S

\* str.strip() on text whose only whitespace is the space
RECURSIVE LStrip(_)
LStrip(text) ==
    IF text # <<>> /\ Head(text) = " " THEN LStrip(Tail(text)) ELSE text

strip(text) == reversed(LStrip(reversed(LStrip(text))))

\* int(text): surrounding whitespace is dropped, then decimal digits only
\* (ValueError otherwise)
ParseInt(text) ==
    LET t == strip(text)
    IN  IF t # <<>> /\ AllIn(t, DigitSet)
        THEN [ok |-> TRUE, v |-> [t |-> "int", n |-> DecimalValue(t)]]
        ELSE [ok |-> FALSE, v |-> <<>>]

\* float(text) of a text of digits and dots: at most one dot and a digit
\* (ValueError otherwise); the float m * 10^e is kept as [m, e]
ParseFloat(text) ==
    LET dots == {i \in 1..Len(text) : text[i] = "."}
        digs == SelectSeq(text, LAMBDA ch : ch # ".")
        dot == CHOOSE i \in dots : TRUE
    IN  IF AllIn(text, DigitSet \cup {"."}) /\ Cardinality(dots) <= 1 /\ digs # <<>>
        THEN [ok |-> TRUE,
              v |-> [t |-> "float", m |-> DecimalValue(digs),
                     e |-> IF dots = {} THEN 0 ELSE dot - Len(text)]]
        ELSE [ok |-> FALSE, v |-> <<>>]

(***************************************************************************)
(* datetime.                                                               *)
(***************************************************************************)
IsLeap(y) == y % 4 = 0 /\ (y % 100 # 0 \/ y % 400 = 0)

DaysInMonth(y, m) ==
    IF m = 2 THEN (IF IsLeap(y) THEN 29 ELSE 28)
    ELSE IF m \in {4, 6, 9, 11} THEN 30 ELSE 31

\* datetime.datetime(y, m, d, H, M, S) raises ValueError unless this holds
ValidDateTime(y, m, d, H, M, S) ==
    /\ y \in 1..9999 /\ m \in 1..12 /\ d \in 1..DaysInMonth(y, m)
    /\ H \in 0..23 /\ M \in 0..59 /\ S \in 0..59

\* days before 1 January of year y (date.toordinal() - 1)
DaysBeforeYear(y) ==
    365 * (y - 1) + ((y - 1) \div 4) - ((y - 1) \div 100) + ((y - 1) \div 400)

\* datetime(year, 1, 1) + timedelta(dayofyear - 1): ValueError on the year,
\* OverflowError when the date leaves 0001-01-01..9999-12-31
DayOfYearDate(year, dayofyear) ==
    IF year \notin 1..9999 THEN "ValueError"
    ELSE IF DaysBeforeYear(year) + dayofyear \notin 1..3652059 THEN "OverflowError"
    ELSE "ok"

MonthNames ==
    << <<"j", "a", "n">>, <<"f", "e", "b">>, <<"m", "a", "r">>,
       <<"a", "p", "r">>, <<"m", "a", "y">>, <<"j", "u", "n">>,
       <<"j", "u", "l">>, <<"a", "u", "g">>, <<"s", "e", "p">>,
       <<"o", "c", "t">>, <<"n", "o", "v">>, <<"d", "e", "c">> >>

\* str.lower() of one ASCII character
Lower(ch) ==
    IF ch \in UpperSet THEN Lowers[CHOOSE i \in 1..26 : Uppers[i] = ch] ELSE ch

\* the words of a text, split at runs of spaces
RECURSIVE Words(_)
Words(text) ==
    LET t == LStrip(text)
        ends == {i \in 1..Len(t) : t[i] = " "}
        n == IF ends = {} THEN Len(t)
             ELSE (CHOOSE i \in ends : \A j \in ends : i <= j) - 1
    IN  IF t = <<>> THEN <<>>
        ELSE <<SubSeq(t, 1, n)>> \o Words(SubSeq(t, n + 1, Len(t)))

\* datetime.strptime(text, '%d %b %Y'): day (1-31, one or two digits, a
\* single leading space allowed before one digit), spaces, abbreviated
\* month name in any case, spaces, four-digit year, nothing after;
\* ValueError otherwise, or when the day is not a day of the month
StrptimeDate(text) ==
    LET w == Words(text)
        lead == Len(text) - Len(LStrip(text))
        dd == w[1]
        mon == [i \in 1..Len(w[2]) |-> Lower(w[2][i])]
        months == {i \in 1..12 : MonthNames[i] = mon}
        shape == /\ Len(w) = 3
                 /\ text[Len(text)] # " "
                 /\ Len(dd) \in 1..2 /\ AllIn(dd, DigitSet)
                 /\ lead = 0 \/ (lead = 1 /\ Len(dd) = 1)
                 /\ months # {}
                 /\ Len(w[3]) = 4 /\ AllIn(w[3], DigitSet)
        d == DecimalValue(dd)
        m == CHOOSE i \in months : TRUE
        y == DecimalValue(w[3])
    IN  IF text # <<>> /\ shape /\ ValidDateTime(y, m, d, 0, 0, 0)
        THEN [ok |-> TRUE, v |-> [t |-> "datetime", year |-> y, month |-> m, day |-> d]]
        ELSE [ok |-> FALSE, v |-> <<>>]

(***************************************************************************)
(* Regular expressions: a pattern is a sequence of items, a literal text,  *)
(* "." or a named group of a character class repeated min..max times       *)
(* (max = -1: no upper limit), greedy.                                     *)
(***************************************************************************)
Lit(text) == [k |-> "lit", text |-> text]

AnyChar == [k |-> "any"]

Grp(name, cls, min, max) == [k |-> "grp", name |-> name, cls |-> cls, min |-> min, max |-> max]

\* the length of the longest run of class characters of s after pos, at most max
RECURSIVE Run(_, _, _, _)
Run(s, pos, cls, max) ==
    IF max # 0 /\ pos < Len(s) /\ s[pos + 1] \in cls
    THEN 1 + Run(s, pos + 1, cls, IF max < 0 THEN max ELSE max - 1)
    ELSE 0

\* re.match of items i.. of the pattern on s from pos: the first match in
\* backtracking order (a group tries its longest repetition first)
RECURSIVE MatchFrom(_, _, _, _)
MatchFrom(items, i, s, pos) ==
    IF i > Len(items) THEN [ok |-> TRUE, groups |-> <<>>]
    ELSE LET it == items[i]
             fail == [ok |-> FALSE, groups |-> <<>>]
         IN  CASE it.k = "lit" ->
                    IF SubSeq(s, pos + 1, Min(pos + Len(it.text), Len(s))) = it.text
                    THEN MatchFrom(items, i + 1, s, pos + Len(it.text))
                    ELSE fail
               [] it.k = "any" ->
                    IF pos < Len(s) THEN MatchFrom(items, i + 1, s, pos + 1) ELSE fail
               [] it.k = "grp" ->
                    LET run == Run(s, pos, it.cls, it.max)
                        cands == {n \in it.min..run : MatchFrom(items, i + 1, s, pos + n).ok}
                        n == CHOOSE c \in cands : \A d \in cands : d <= c
                        rest == MatchFrom(items, i + 1, s, pos + n)
                    IN  IF cands = {} THEN fail
                        ELSE [ok |-> TRUE,
                              groups |-> (it.name :> SubSeq(s, pos + 1, pos + n)) @@ rest.groups]

(***************************************************************************)
(* io/_iofmt.py: the Rinsland text header.                                 *)
(***************************************************************************)
rinsland_header_regex ==
    << Grp("spec_type", UpperSet, 3, 3), Lit(<<"-">>),
       Grp("name", WordSet \cup {"."}, 12, 12), Lit(<<" ">>),
       Grp("date", WordSet \cup {" "}, 11, 11), Lit(<<" ", " ">>),
       Grp("resolution", DigitSet \cup {"."}, 1, -1), Lit(<<"m", "K", " ">>),
       Grp("aperture", DigitSet \cup {"."}, 1, -1), Lit(<<" ", "m", "m", " ">>),
       Lit(<<"A", "p">>), AnyChar, Lit(<<"Z", "A", "=">>),
       Grp("zenith_angle", DigitSet \cup {"."}, 1, -1), Lit(<<" ">>),
       Lit(<<"S", "/", "N", "=">>),
       Grp("sn_ratio", DigitSet \cup {" "}, 1, -1), Lit(<<" ">>),
       Lit(<<"h", "=">>),
       Grp("hour_avg", DigitSet \cup {"."}, 1, -1) >>

\* a mutant of rinsland_header_ftype: sn_ratio is left a string
rinsland_header_ftype_nosn ==
    << <<"spec_type", "str">>, <<"name", "str">>, <<"date", "date">>,
       <<"resolution", "float">>, <<"aperture", "float">>,
       <<"zenith_angle", "float">>, <<"sn_ratio", "str">>,
       <<"hour_avg", "float">> >>

\* the pairs (field name, conversion) in the dict's order
rinsland_header_ftype ==
    << <<"spec_type", "str">>, <<"name", "str">>, <<"date", "date">>,
       <<"resolution", "float">>, <<"aperture", "float">>,
       <<"zenith_angle", "float">>, <<"sn_ratio", "int">>,
       <<"hour_avg", "float">> >>

(***************************************************************************)
(* utils/io.py: the text block reader.                                     *)
(***************************************************************************)
\* f(text) for a conversion of a field-type table
Convert(conv, text) ==
    CASE conv = "str" -> [ok |-> TRUE, v |-> [t |-> "str", v |-> text]]
      [] conv = "int" -> ParseInt(text)
      [] conv = "float" -> ParseFloat(text)
      [] conv = "date" -> StrptimeDate(text)

\* for k, f in ftype.items(): fields[k] = f(fields[k]), from entry i on
RECURSIVE ConvertFields(_, _, _)
ConvertFields(fields, ftype, i) ==
    IF i > Len(ftype) THEN [ok |-> TRUE, err |-> "none", fields |-> fields]
    ELSE LET k == ftype[i][1]
             c == Convert(ftype[i][2], fields[k].v)
         IN  IF k \notin DOMAIN fields
             THEN [ok |-> FALSE, err |-> "KeyError", fields |-> <<>>]
             ELSE IF ~c.ok
             THEN [ok |-> FALSE, err |-> "ValueError", fields |-> <<>>]
             ELSE ConvertFields([fields EXCEPT ![k] = c.v], ftype, i + 1)

\* read_str_block(string, regex, ftype); ftype = <<>> stands for None.
\* re.match(...) is None on no match, and None.groupdict() raises
\* AttributeError
read_str_block(string, regex, ftype) ==
    LET m == MatchFrom(regex, 1, string, 0)
        raw == [k \in DOMAIN m.groups |-> [t |-> "str", v |-> m.groups[k]]]
    IN  IF ~m.ok THEN [ok |-> FALSE, err |-> "AttributeError", fields |-> <<>>]
        ELSE ConvertFields(raw, ftype, 1)

(***************************************************************************)
(* bytes.decode(): the readers' files hold ASCII bytes and 255, which no   *)
(* UTF-8 text holds; a byte below 128 decodes to the character of that     *)
(* code, any other byte is taken to raise UnicodeDecodeError.              *)
(***************************************************************************)
\* the characters of codes 32..126 (code 96 is written "grave")
Printable ==
    << " ", "!", "\"", "#", "$", "%", "&", "'", "(", ")", "*", "+",
       ",", "-", ".", "/", "0", "1", "2", "3", "4", "5", "6", "7",
       "8", "9", ":", ";", "<", "=", ">", "?", "@", "A", "B", "C",
       "D", "E", "F", "G", "H", "I", "J", "K", "L", "M", "N", "O",
       "P", "Q", "R", "S", "T", "U", "V", "W", "X", "Y", "Z", "[",
       "\\", "]", "^", "_", "grave", "a", "b", "c", "d", "e", "f", "g",
       "h", "i", "j", "k", "l", "m", "n", "o", "p", "q", "r", "s",
       "t", "u", "v", "w", "x", "y", "z", "{", "|", "}", "~" >>

\* chr(b) for b < 128; the control characters other than NUL are one symbol
Chr(b) ==
    IF b \in 32..126 THEN Printable[b - 31]
    ELSE IF b = 0 THEN "\\0" ELSE "\\x"

\* ord(ch) of a printable character
Ord(ch) == 31 + (CHOOSE i \in 1..95 : Printable[i] = ch)

decode(bs) ==
    IF \E i \in 1..Len(bs) : bs[i] >= 128
    THEN [ok |-> FALSE, v |-> <<>>]
    ELSE [ok |-> TRUE, v |-> [i \in 1..Len(bs) |-> Chr(bs[i])]]

StrVal(text) == [t |-> "str", v |-> text]

\* float('nan')
NaN == [t |-> "float", nan |-> TRUE]

\* the float m * 10^e
Decimal(m, e) == [t |-> "float", m |-> m, e |-> e]

\* the IEEE pattern (little-endian bytes) is neither an infinity nor a NaN
IsFinite(bs) ==
    LET hi == bs[Len(bs)] % 128
        lo == bs[Len(bs) - 1]
    IN  IF Len(bs) = 4 THEN ~(hi = 127 /\ lo >= 128)
        ELSE ~(hi = 127 /\ lo >= 240)

\* the IEEE pattern is 0.0 or -0.0
IsZero(bs) ==
    /\ \A i \in 1..(Len(bs) - 1) : bs[i] = 0
    /\ bs[Len(bs)] \in {0, 128}

(***************************************************************************)
(* dict operations.                                                        *)
(***************************************************************************)
\* d after d.pop(k) for each k of keys
Pop(d, keys) == [k \in DOMAIN d \ keys |-> d[k]]

\* d after d[k] = v
Put(d, k, v) == (k :> v) @@ d

(***************************************************************************)
(* Files: a handle is open from open() to the end of its with-block.       *)
(***************************************************************************)
\* a mutant of WithExit: the handle stays open when the block raised
WithExit_leak(hs, h, raised) == IF raised THEN hs ELSE hs \ {h}

\* the end of "with open(...) as f": f is closed, whether the block
\* returned or raised
WithExit(hs, h, raised) == hs \ {h}

\* f.seek(2048) of read_fts1
Fts1DataOffset == 2048

\* f.seek(1280) of read_bruker
BrukerDataOffset == 1280

\* f.read(80) of read_rinsland
RinslandHeaderLen == 80

\* np.fromfile(f, dtype='f') / np.frombuffer(buf, dtype='f'): the whole
\* 4-byte items of the bytes
Floats(bs) == [k \in 1..(Len(bs) \div 4) |-> FloatVal(SubSeq(bs, 4 * k - 3, 4 * k))]

\* the bytes of the file from offset off on
FileFrom(bytes, off) == SubSeq(bytes, off + 1, Len(bytes))

(***************************************************************************)
(* Building sample files: pack(ffmt, vals) lays the bytes vals gives for   *)
(* the named fields at the fields' places; the other bytes are 0.          *)
(***************************************************************************)
Zeros(n) == [i \in 1..n |-> 0]

\* struct.pack('<h', n)
LE16(n) ==
    LET u == IF n < 0 THEN n + 65536 ELSE n
    IN  <<u % 256, u \div 256>>

\* struct.pack('<i', n)
LE32(n) ==
    [k \in 1..4 |->
        IF n >= 0 THEN (n \div Pow2(8 * (k - 1))) % 256
        ELSE 255 - ((((0 - n) - 1) \div Pow2(8 * (k - 1))) % 256)]

\* text.encode() of printable text
Encode(text) == [i \in 1..Len(text) |-> Ord(text[i])]

RECURSIVE pack(_, _)
pack(ffmt, vals) ==
    IF ffmt = <<>> THEN <<>>
    ELSE LET name == Head(ffmt)[1]
         IN  (IF name \in DOMAIN vals THEN vals[name] ELSE Zeros(Width(Head(ffmt)[2])))
                 \o pack(Tail(ffmt), vals)

(***************************************************************************)
(* io/legacy.py: post-processing.  A post-processing operator gives        *)
(* [ok, err, spec]: the exception the code raises first, or the mapping it *)
(* builds.  Float results the model cannot compute from an IEEE pattern    *)
(* are kept as the expression's operands.                                  *)
(***************************************************************************)
Raise(e) == [ok |-> FALSE, err |-> e, spec |-> <<>>]

Done(d) == [ok |-> TRUE, err |-> "none", spec |-> d]

BoolVal(b) == [t |-> "bool", b |-> b]

\* utils/io.py intdec_2_float: the float vi + vd / 2^24
intdec_2_float(vi, vd) == [t |-> "float", i |-> IntOf(vi), d |-> IntOf(vd)]

\* the class of an IEEE pattern
FloatClass(bs) ==
    IF IsFinite(bs) THEN "finite"
    ELSE IF (\A i \in 1..(Len(bs) - 2) : bs[i] = 0)
             /\ bs[Len(bs) - 1] = (IF Len(bs) = 4 THEN 128 ELSE 240)
         THEN "inf" ELSE "nan"

\* datetime.timedelta(seconds=hour * 3600) of a float read from the file:
\* ValueError on a NaN, OverflowError on an infinity (the model's files
\* hold no finite hour large enough to overflow)
HourDelta(hour) ==
    CASE FloatClass(hour.v) = "nan" -> "ValueError"
      [] FloatClass(hour.v) = "inf" -> "OverflowError"
      [] OTHER -> "ok"

\* datetime(year, 1, 1) + timedelta(dayofyear - 1) + timedelta(seconds=hour * 3600)
YearDayHour(year, dayofyear, hour) ==
    LET e1 == DayOfYearDate(IntOf(year), IntOf(dayofyear))
        e2 == HourDelta(hour)
    IN  IF e1 # "ok" THEN Raise(e1)
        ELSE IF e2 # "ok" THEN Raise(e2)
        ELSE Done([t |-> "datetime", year |-> IntOf(year),
                   dayofyear |-> IntOf(dayofyear), hour |-> hour.v])

(***************************************************************************)
(* read_bruker.                                                            *)
(***************************************************************************)
\* the keys the mismatch message reads from spec
BrukerMessageKeys == {"name", "n_points1", "n_points2"}

\* a mutant of BrukerDateTime: hour from [12:18) and minute from [18:24)
BrukerDateTime_swapped(date_block, time_block) ==
    LET dateb == bytes_2_bits(date_block, FALSE)
        timeb == bytes_2_bits(time_block, FALSE)
        seci == bits_2_int(Slice(timeb, 0, 12), TRUE) \div 10
    IN  [t |-> "datetime",
         year |-> bits_2_int(Slice(dateb, 12, 24), TRUE),
         month |-> bits_2_int(Slice(dateb, 6, 12), TRUE),
         day |-> bits_2_int(Slice(dateb, 0, 6), TRUE),
         hour |-> bits_2_int(Slice(timeb, 12, 18), TRUE),
         minute |-> bits_2_int(Slice(timeb, 18, 24), TRUE),
         second |-> seci]

\* datetime_avg from the date and time blocks (microseconds left out)
BrukerDateTime(date_block, time_block) ==
    LET dateb == bytes_2_bits(date_block, FALSE)
        timeb == bytes_2_bits(time_block, FALSE)
        seci == bits_2_int(Slice(timeb, 0, 12), TRUE) \div 10
    IN  [t |-> "datetime",
         year |-> bits_2_int(Slice(dateb, 12, 24), TRUE),
         month |-> bits_2_int(Slice(dateb, 6, 12), TRUE),
         day |-> bits_2_int(Slice(dateb, 0, 6), TRUE),
         hour |-> bits_2_int(Slice(timeb, 18, 24), TRUE),
         minute |-> bits_2_int(Slice(timeb, 12, 18), TRUE),
         second |-> seci]

\* legacy.py lines 102-148 on the header mapping s
bruker_post(s) ==
    LET name == decode(s["name"].v)
        s1 == Put(s, "name", StrVal(strip(name.v)))
        dt == BrukerDateTime(s["date_block"].v, s["time_block"].v)
        n_points == s["n_points2"]
        wn_b == intdec_2_float(s["waven_begin_i"], s["waven_begin_d"])
        wn_e == intdec_2_float(s["waven_end_i"], s["waven_end_d"])
        wn_step == [t |-> "float", num |-> <<wn_e, wn_b>>, den |-> IntOf(n_points)]
        popped == {"n_points2", "date_block", "time_block",
                   "waven_begin_i", "waven_begin_d", "waven_end_i", "waven_end_d",
                   "laserf_i", "laserf_d", "resolution_i", "resolution_d"}
    IN  IF ~name.ok THEN Raise("UnicodeDecodeError")
        ELSE IF IntOf(s1["n_points"]) # IntOf(s1["n_points2"])
        THEN (IF BrukerMessageKeys \subseteq DOMAIN s1
              THEN Raise("ValueError") ELSE Raise("KeyError"))
        ELSE IF ~ValidDateTime(dt.year, dt.month, dt.day, dt.hour, dt.minute, dt.second)
        THEN Raise("ValueError")
        ELSE IF IntOf(n_points) = 0 THEN Raise("ZeroDivisionError")
        ELSE Done(("n_points" :> n_points)
                  @@ ("datetime_avg" :> dt)
                  @@ ("wavenumber_begin" :> wn_b)
                  @@ ("wavenumber_end" :> [t |-> "float", num |-> <<wn_e, wn_step>>])
                  @@ ("wavenumber_step" :> wn_step)
                  @@ ("laser_frequency" :> intdec_2_float(s["laserf_i"], s["laserf_d"]))
                  @@ ("resolution" :>
                        [t |-> "float",
                         num |-> intdec_2_float(s["resolution_i"], s["resolution_d"]),
                         e |-> 3])
                  @@ Pop(s1, popped))

(***************************************************************************)
(* read_spec.                                                              *)
(***************************************************************************)
\* the header keys with 'created' or 'modified' in them
StampKeys == {"created_pc", "modified_pc", "created_hp1000", "modified_hp1000"}

\* legacy.py lines 185-192: each stamp becomes the datetime strptime reads
\* from its text or, failing that, the stripped text (kept here as the
\* text); a stamp that does not decode raises inside the handler
spec_post_header(h) ==
    IF \E k \in StampKeys \cap DOMAIN h : ~decode(h[k].v).ok
    THEN Raise("UnicodeDecodeError")
    ELSE Done([k \in DOMAIN h |->
                  IF k \in StampKeys
                  THEN [t |-> "datetime-or-str", text |-> decode(h[k].v).v]
                  ELSE h[k]])

\* a mutant of QualityFlags: bit 7 is not inverted
QualityFlags_plain(qb) ==
    [is_bad_spectrum |-> BoolVal(qb[1] # 0),
     is_mean_spectrum |-> BoolVal(qb[2] # 0),
     is_bad_zero |-> BoolVal(qb[3] # 0),
     fringing_level |-> IntVal(bits_2_int(Slice(qb, 3, 5), FALSE)),
     has_bad_sn_ratio |-> BoolVal(qb[6] # 0),
     has_bad_ils |-> BoolVal(qb[7] # 0),
     is_sun_centered |-> BoolVal(qb[8] # 0),
     has_pollution |-> BoolVal(qb[9] # 0),
     has_slow_signal_variation |-> BoolVal(qb[10] # 0),
     has_fast_signal_variation |-> BoolVal(qb[11] # 0),
     has_technical_problem |-> BoolVal(qb[12] # 0),
     weather_id |-> IntVal(bits_2_int(Slice(qb, 13, 16), FALSE))]

\* legacy.py lines 241-253 on qb = bytes_2_bits(quality); qb[i] of the code
\* is qb[i + 1] here
QualityFlags(qb) ==
    [is_bad_spectrum |-> BoolVal(qb[1] # 0),
     is_mean_spectrum |-> BoolVal(qb[2] # 0),
     is_bad_zero |-> BoolVal(qb[3] # 0),
     fringing_level |-> IntVal(bits_2_int(Slice(qb, 3, 5), FALSE)),
     has_bad_sn_ratio |-> BoolVal(qb[6] # 0),
     has_bad_ils |-> BoolVal(qb[7] # 0),
     is_sun_centered |-> BoolVal(~(qb[8] # 0)),
     has_pollution |-> BoolVal(qb[9] # 0),
     has_slow_signal_variation |-> BoolVal(qb[10] # 0),
     has_fast_signal_variation |-> BoolVal(qb[11] # 0),
     has_technical_problem |-> BoolVal(qb[12] # 0),
     weather_id |-> IntVal(bits_2_int(Slice(qb, 13, 16), FALSE))]

\* legacy.py lines 206-213: x = float('nan') where x == sentinel, x an int
Undefined(x, sentinel) == IF x = sentinel THEN NaN ELSE IntVal(x)

\* x *= 10^e for x an int or a NaN
Scale(x, e) == IF x = NaN THEN NaN ELSE Decimal(IntOf(x), e)

\* legacy.py lines 195-253 on one record r
spec_post_record(r) ==
    LET rh == bits_2_int(bytes_2_bits(r["relative_humidity"].v, FALSE), FALSE)
        th == bits_2_int(bytes_2_bits(r["tropopause_height"].v, FALSE), FALSE)
        avg == YearDayHour(r["year_avg"], r["dayofyear_avg"], r["hour_avg"])
        begin == YearDayHour(r["year_begin"], r["dayofyear_begin"], r["hour_begin"])
        end == YearDayHour(r["year_end"], r["dayofyear_end"], r["hour_end"])
        name == decode(r["name"].v)
        popped == {"year_avg", "dayofyear_avg", "hour_avg",
                   "year_begin", "dayofyear_begin", "hour_begin",
                   "year_end", "dayofyear_end", "hour_end", "quality"}
    IN  IF ~avg.ok THEN Raise(avg.err)
        ELSE IF ~begin.ok THEN Raise(begin.err)
        ELSE IF ~end.ok THEN Raise(end.err)
        ELSE IF ~name.ok THEN Raise("UnicodeDecodeError")
        ELSE Done(QualityFlags(bytes_2_bits(r["quality"].v, FALSE))
                  @@ ("name" :> StrVal(strip(name.v)))
                  @@ ("datetime_avg" :> avg.spec)
                  @@ ("datetime_begin" :> begin.spec)
                  @@ ("datetime_end" :> end.spec)
                  @@ ("n_points_itf" :> IntVal(IntOf(r["n_points_itf"]) * 1000))
                  @@ ("n_points_fft" :> IntVal(IntOf(r["n_points_fft"]) * 1000))
                  @@ ("resistance" :> Decimal(IntOf(r["resistance"]), 3))
                  @@ ("temperature" :>
                        Scale(Undefined(IntOf(r["temperature"]), -9999), -1))
                  @@ ("pressure" :> Scale(Undefined(IntOf(r["pressure"]), -9999), -1))
                  @@ ("tropopause_height" :> Scale(Undefined(th, -9), -1))
                  @@ ("relative_humidity" :> Scale(Undefined(rh, -99), 0))
                  @@ ("wavenumber_step" :>
                        [t |-> "float", num |-> r["wavenumber_step"], e |-> -3])
                  @@ Pop(r, popped))

\* the records after "for r in records: ...": the first exception, or all
\* the records post-processed
RECURSIVE spec_post_records(_)
spec_post_records(rs) ==
    IF rs = <<>> THEN Done(<<>>)
    ELSE LET p == spec_post_record(Head(rs))
             q == spec_post_records(Tail(rs))
         IN  IF ~p.ok THEN p
             ELSE IF ~q.ok THEN q
             ELSE Done(<<p.spec>> \o q.spec)

\* a mutant of ReadPair: the first record of the pair is the one kept
ReadPair_first(bytes, cur) ==
    LET first == read_bin_block(bytes, cur, spec_record_ffmt, NoPos, "<")
        second == read_bin_block(bytes, first.cursor, spec_record_ffmt, NoPos, "<")
    IN  IF ~first.ok THEN [ok |-> FALSE, cursor |-> first.cursor, kept |-> <<>>]
        ELSE [ok |-> second.ok, cursor |-> second.cursor, kept |-> first.fields]

\* legacy.py lines 180-181: one turn of the loop reads two records and
\* keeps the second
ReadPair(bytes, cur) ==
    LET empty_record == read_bin_block(bytes, cur, spec_record_ffmt, NoPos, "<")
        filled == read_bin_block(bytes, empty_record.cursor, spec_record_ffmt, NoPos, "<")
    IN  IF ~empty_record.ok
        THEN [ok |-> FALSE, cursor |-> empty_record.cursor, kept |-> <<>>]
        ELSE [ok |-> filled.ok, cursor |-> filled.cursor, kept |-> filled.fields]

(***************************************************************************)
(* read_fts1.                                                              *)
(***************************************************************************)
\* inv_dict(_iocodes.source_id).get(text, 0)
source_id(text) ==
    CASE text = <<"s", "u", "n">> -> 4
      [] text = <<"m", "o", "o", "n">> -> 5
      [] OTHER -> 0

\* data[:n] of a sequence
Take(data, n) ==
    IF n >= 0 THEN SubSeq(data, 1, Min(n, Len(data)))
    ELSE SubSeq(data, 1, Len(data) + n)

\* legacy.py lines 41-75 on the header mapping s
fts1_post(s) ==
    LET name == decode(s["name"].v)
        source == decode(s["source"].v)
        ftype == decode(s["ftype"].v)
        src == strip(source.v)
        begin == DayOfYearDate(IntOf(s["year_begin"]), IntOf(s["dayofyear_begin"]))
        end == DayOfYearDate(IntOf(s["year_end"]), IntOf(s["dayofyear_end"]))
        hour == HourDelta(s["hour_avg"])
        Date(y, d) == [t |-> "datetime", year |-> IntOf(y), dayofyear |-> IntOf(d)]
        dt_begin == Date(s["year_begin"], s["dayofyear_begin"])
        dt_end == Date(s["year_end"], s["dayofyear_end"])
        popped == {"year_begin", "dayofyear_begin", "year_end", "dayofyear_end",
                   "hour_avg", "source", "opd"}
    IN  IF ~name.ok \/ ~source.ok \/ ~ftype.ok THEN Raise("UnicodeDecodeError")
        ELSE IF begin # "ok" THEN Raise(begin)
        ELSE IF end # "ok" THEN Raise(end)
        ELSE IF hour # "ok" THEN Raise(hour)
        ELSE IF IsZero(s["opd"].v) THEN Raise("ZeroDivisionError")
        ELSE IF IntOf(s["n_points"]) = 0 THEN Raise("ZeroDivisionError")
        ELSE Done(("name" :> StrVal(strip(name.v)))
                  @@ ("ftype" :> StrVal(strip(ftype.v)))
                  @@ ("datetime_begin" :> dt_begin)
                  @@ ("datetime_end" :> dt_end)
                  @@ ("datetime_avg" :>
                        [t |-> "datetime", between |-> <<dt_begin, dt_end>>,
                         hour |-> s["hour_avg"].v])
                  @@ ("source_id" :>
                        IntVal(source_id([i \in 1..Len(src) |-> Lower(src[i])])))
                  @@ ("resolution" :> [t |-> "float", num |-> 500, den |-> s["opd"]])
                  @@ ("wavenumber_step" :>
                        [t |-> "float",
                         num |-> <<s["wavenumber_end"], s["wavenumber_begin"]>>,
                         den |-> IntOf(s["n_points"])])
                  @@ Pop(s, popped))

(***************************************************************************)
(* read_rinsland.                                                          *)
(***************************************************************************)
\* struct.unpack('<80s', f.read(80))[0].decode() and read_str_block on it
rinsland_header(bytes, cur) ==
    LET buf == FileRead(bytes, cur, RinslandHeaderLen)
        text == decode(buf)
        r == read_str_block(text.v, rinsland_header_regex, rinsland_header_ftype)
    IN  IF Len(buf) # RinslandHeaderLen THEN Raise("struct.error")
        ELSE IF ~text.ok THEN Raise("UnicodeDecodeError")
        ELSE IF ~r.ok THEN Raise(r.err)
        ELSE Done(r.fields)

\* spec.update(other)
Update(d, other) == other @@ d

\* np.frombuffer(buf, dtype='f'): ValueError unless buf is whole items
frombuffer(buf) ==
    IF Len(buf) % 4 # 0 THEN Raise("ValueError") ELSE Done(Floats(buf))

\* legacy.py lines 279-283 on the mapping s
rinsland_post(s) ==
    Put(Pop(s, {"hour_avg", "date"}), "datetime_avg",
        [t |-> "datetime", date |-> s["date"], hour |-> s["hour_avg"]])

(***************************************************************************)
(* What the variables hold when a call does not use them.                  *)
(***************************************************************************)
NoFile == /\ file = <<>> /\ cursor = 0 /\ handles = {}

NoLocals == /\ spec = <<>> /\ header = <<>> /\ records = <<>>

NoResult == /\ ret = <<>> /\ err = "none"

(***************************************************************************)
(* SpecBits: calls of the bit helpers on bounded inputs.                   *)
(***************************************************************************)
BitLists == UNION {[1..n -> {0, 1}] : n \in 0..MaxBits}

SampleBytes == {0, 1, 157, 247}

ByteLists == UNION {[1..n -> SampleBytes] : n \in 0..2}

InitBits ==
    /\ \/ op = "bits_2_int" /\ arg \in [bits : BitLists, swap : BOOLEAN]
       \/ op = "bytes_2_bits" /\ arg \in [bytes : ByteLists, swap : BOOLEAN]
    /\ pc = "call"
    /\ NoFile /\ NoLocals /\ NoResult

\* bits_2_int(bits, swap); int('', base=2) raises ValueError
CallBits2Int ==
    /\ pc = "call" /\ op = "bits_2_int"
    /\ IF arg.bits = <<>>
       THEN pc' = "raised" /\ err' = "ValueError" /\ ret' = ret
       ELSE pc' = "returned" /\ err' = err
            /\ ret' = bits_2_int(arg.bits, arg.swap)
    /\ UNCHANGED <<op, arg, file, cursor, handles, spec, header, records>>

\* bytes_2_bits(bytes, swap)
CallBytes2Bits ==
    /\ pc = "call" /\ op = "bytes_2_bits"
    /\ pc' = "returned"
    /\ ret' = bytes_2_bits(arg.bytes, arg.swap)
    /\ UNCHANGED <<op, arg, file, cursor, handles, err, spec, header, records>>

NextBits == CallBits2Int \/ CallBytes2Bits

SpecBits == InitBits /\ [][NextBits]_vars

(***************************************************************************)
(* SpecBin: calls of read_bin_block on bounded field-spec lists and        *)
(* streams.                                                                *)
(***************************************************************************)
FieldNamePool == <<"a", "b", "c", "d", "e", "f">>

SampleCodes == {<<1, "h">>, <<2, "x">>, <<1, "f">>}

\* the lists of at most MaxFields field specs over SampleCodes, each field
\* named (the k-th named field by the k-th name of the pool) or None
FieldLists ==
    UNION {{[i \in 1..n |->
                <<IF nm[i]
                  THEN FieldNamePool[Cardinality({j \in 1..i : nm[j]})]
                  ELSE None,
                  cs[i]>>] :
             nm \in [1..n -> BOOLEAN], cs \in [1..n -> SampleCodes]} :
           n \in 0..MaxFields}

\* the stream of n bytes, all different
SampleStream(n) == [i \in 1..n |-> (200 + 37 * i) % 256]

InitBin ==
    /\ op = "read_bin_block"
    /\ \E n \in 0..MaxStream : file = SampleStream(n)
    /\ cursor \in {0, 1}
    /\ handles = {}
    /\ arg \in [ffmt : FieldLists, pos : {NoPos, 2}, endian : {"<", ">"}, cur : {cursor}]
    /\ pc = "call"
    /\ NoLocals /\ NoResult

\* read_bin_block(f, ffmt, pos, endian) on the stream (file, cursor)
CallReadBinBlock ==
    /\ pc = "call" /\ op = "read_bin_block"
    /\ LET r == read_bin_block(file, cursor, arg.ffmt, arg.pos, arg.endian)
       IN  /\ cursor' = r.cursor
           /\ IF r.ok
              THEN pc' = "returned" /\ ret' = r.fields /\ err' = err
              ELSE pc' = "raised" /\ err' = "struct.error" /\ ret' = ret
    /\ UNCHANGED <<op, arg, file, handles, spec, header, records>>

NextBin == CallReadBinBlock

SpecBin == InitBin /\ [][NextBin]_vars

(***************************************************************************)
(* Claims on the bit helpers (under SpecBits).                             *)
(***************************************************************************)
\* the K-bit expansion of N, most significant bit first
BitsOf(N, K) == [i \in 1..K |-> (N \div Pow2(K - i)) % 2]

\* the sequence read backwards
ReverseOf(s) == [i \in 1..Len(s) |-> s[Len(s) + 1 - i]]

\* C9: bits_2_int of the K-bit most-significant-first expansion of N is N,
\* for every K >= 1 and 0 <= N < 2^K; and for every non-empty bit list s,
\* bits_2_int(s, swap=True) = bits_2_int(reverse(s)).
C9_Bits2IntRoundTrip ==
    (op = "bits_2_int" /\ pc # "call" /\ arg.bits # <<>>) =>
        /\ pc = "returned"
        /\ ~arg.swap =>
              \A K \in 1..MaxBits : \A N \in 0..(Pow2(K) - 1) :
                  arg.bits = BitsOf(N, K) => ret = N
        /\ arg.swap => ret = bits_2_int(ReverseOf(arg.bits), FALSE)

\* reached: the expansion 110 of 6 gave 6, and 110 swapped gave 3
C9_Witness ==
    /\ op = "bits_2_int" /\ pc = "returned"
    /\ arg.bits = <<1, 1, 0>>
    /\ ret = IF arg.swap THEN 3 ELSE 6

(***************************************************************************)
(* Claims on read_bin_block (under SpecBin).                               *)
(***************************************************************************)
\* the bytes one format character takes
CharBytes(c) ==
    CASE c \in {"x", "s", "c"} -> 1
      [] c = "h" -> 2
      [] c \in {"i", "f"} -> 4
      [] c = "d" -> 8

\* the sum of the byte widths of the codes of fields 1..n of a list
RECURSIVE WidthUpTo(_, _)
WidthUpTo(ffmt, n) ==
    IF n = 0 THEN 0
    ELSE WidthUpTo(ffmt, n - 1) + ffmt[n][2][1] * CharBytes(ffmt[n][2][2])

\* the position the read starts at: the offset passed, else the cursor
StartPos == IF arg.pos # NoPos THEN arg.pos ELSE arg.cur

\* the bytes of the stream from the start position on
BytesRemaining == IF StartPos >= Len(file) THEN 0 ELSE Len(file) - StartPos

\* unnamed fields are padding, named fields hold one value
PaddingIsUnnamed(ffmt) ==
    \A i \in 1..Len(ffmt) :
        /\ ffmt[i][1] = None <=> ffmt[i][2][2] = "x"
        /\ ffmt[i][1] # None => (ffmt[i][2][1] = 1 \/ ffmt[i][2][2] = "s")

NamedFields(ffmt) == {i \in 1..Len(ffmt) : ffmt[i][1] # None}

\* C2: when fewer bytes remain from the read position than the total width
\* of the format codes, read_bin_block raises (struct.error) and returns no
\* record, whatever the field-spec list and the stream.
C2_ShortReadFails ==
    (op = "read_bin_block" /\ pc # "call"
        /\ BytesRemaining < WidthUpTo(arg.ffmt, Len(arg.ffmt))) =>
        /\ pc = "raised"
        /\ err = "struct.error"
        /\ ret = <<>>

\* reached: a read that found some of the bytes it needed, not all, failed
C2_Witness ==
    /\ op = "read_bin_block" /\ pc = "raised"
    /\ BytesRemaining > 0
    /\ BytesRemaining < WidthUpTo(arg.ffmt, Len(arg.ffmt))
    /\ \E i \in NamedFields(arg.ffmt) : WidthUpTo(arg.ffmt, i) <= BytesRemaining

HeaderLine(type, name, gap, date, resolution, sn) ==
    type \o <<"-">> \o name \o gap \o date \o <<" ", " ">> \o resolution
         \o <<"m", "K", " ">> \o <<"1", "2", ".", "0", " ", "m", "m", " ">>
         \o <<"A", "p", ".", "Z", "A", "=", "3", "0", ".", "0", " ", "S", "/", "N", "=">> \o sn \o <<" ", "h", "=", "1", "0", ".", "5">>

SampleTypes == {<<"B", "R", "A">>, <<"B", "r", "1">>}

\* a name and the gap after it
SampleNames ==
    {<<<<"s", "a", "m", "p", "l", "e", "1", "2">>, <<" ", " ", " ">> >>,
     <<<<"s", "a", "m", "p", "l", "e", "1", "2", ".", "a", "b", "c">>, <<" ">> >>,
     <<<<"s", "a", "m", "p", "l", "e", "_", "a", "b", "c">>, <<" ", " ">> >>}

SampleDates == {<<"0", "1", " ", "J", "a", "n", " ", "2", "0", "0", "0">>, <<"3", "1", " ", "F", "e", "b", " ", "2", "0", "0", "0">>, <<" ", "1", " ", "j", "A", "N", " ", "2", "0", "0", "0">>}

SampleResolutions == {<<"1", "0", "0", ".", "0">>, <<"1", ".", "0", ".", "0">>}

SampleSnRatios == {<<"1", "0", "0">>, <<"1", "0", " ">>, <<"1", " ", "0">>}

HeaderLines ==
    {HeaderLine(ty, nm[1], nm[2], d, r, sn) :
        ty \in SampleTypes, nm \in SampleNames, d \in SampleDates,
        r \in SampleResolutions, sn \in SampleSnRatios}

InitStr ==
    /\ op = "read_str_block"
    /\ arg \in [string : HeaderLines, ftype : {rinsland_header_ftype, <<>>}]
    /\ pc = "call"
    /\ NoFile /\ NoLocals /\ NoResult

\* read_str_block(string, rinsland_header_regex, ftype)
CallReadStrBlock ==
    /\ pc = "call" /\ op = "read_str_block"
    /\ LET r == read_str_block(arg.string, rinsland_header_regex, arg.ftype)
       IN  IF r.ok
           THEN pc' = "returned" /\ ret' = r.fields /\ err' = err
           ELSE pc' = "raised" /\ err' = r.err /\ ret' = ret
    /\ UNCHANGED <<op, arg, file, cursor, handles, spec, header, records>>

NextStr == CallReadStrBlock

SpecStr == InitStr /\ [][NextStr]_vars

(***************************************************************************)
(* Claims on read_str_block (under SpecStr).                               *)
(***************************************************************************)
\* "BRA-sample12   01 Jan 2000  100.0mK 12.0 mm Ap.ZA=30.0 S/N=100 h=10.5"
C8_String ==
    <<"B", "R", "A", "-", "s", "a", "m", "p", "l", "e", "1", "2",
      " ", " ", " ", "0", "1", " ", "J", "a", "n", " ", "2", "0",
      "0", "0", " ", " ", "1", "0", "0", ".", "0", "m", "K", " ",
      "1", "2", ".", "0", " ", "m", "m", " ", "A", "p", ".", "Z",
      "A", "=", "3", "0", ".", "0", " ", "S", "/", "N", "=", "1",
      "0", "0", " ", "h", "=", "1", "0", ".", "5">>

\* "BRA-sample12.abc 01 Jan 2000  100.0mK 12.0 mm Ap.ZA=30.0 S/N=100 h=10.5"
C8_String12 ==
    <<"B", "R", "A", "-", "s", "a", "m", "p", "l", "e", "1", "2",
      ".", "a", "b", "c", " ", "0", "1", " ", "J", "a", "n", " ",
      "2", "0", "0", "0", " ", " ", "1", "0", "0", ".", "0", "m",
      "K", " ", "1", "2", ".", "0", " ", "m", "m", " ", "A", "p",
      ".", "Z", "A", "=", "3", "0", ".", "0", " ", "S", "/", "N",
      "=", "1", "0", "0", " ", "h", "=", "1", "0", ".", "5">>

\* the fields the claim names: spec_type "BRA", date 1 January 2000,
\* resolution 100.0 and sn_ratio the integer 100
C8_Fields(fields) ==
    /\ fields["spec_type"] = [t |-> "str", v |-> <<"B", "R", "A">>]
    /\ fields["date"] = [t |-> "datetime", year |-> 2000, month |-> 1, day |-> 1]
    /\ fields["resolution"].t = "float"
    /\ fields["resolution"].m = 100 * Pow10(0 - fields["resolution"].e)
    /\ fields["sn_ratio"] = [t |-> "int", n |-> 100]

C8_Call(string) ==
    /\ op = "read_str_block" /\ pc # "call"
    /\ arg.string = string /\ arg.ftype = rinsland_header_ftype

\* C8 as stated: read_str_block of the string with the 8-character name
\* succeeds and yields spec_type "BRA", date 1 January 2000, resolution
\* 100.0 and sn_ratio the integer 100.
C8_AsStated ==
    C8_Call(C8_String) => (pc = "returned" /\ C8_Fields(ret))

\* C8 as amended: on that string the pattern does not match (the name group
\* takes exactly 12 characters of [\w.] and one space must follow), the call
\* raises AttributeError and yields no field; on the same line with the
\* 12-character name "sample12.abc" and one space after it, the call
\* succeeds and yields spec_type "BRA", date 1 January 2000, resolution
\* 100.0 and sn_ratio the integer 100.
C8_Amended ==
    /\ C8_Call(C8_String) =>
          (pc = "raised" /\ err = "AttributeError" /\ ret = <<>>)
    /\ C8_Call(C8_String12) => (pc = "returned" /\ C8_Fields(ret))

\* reached: the line with the 12-character name was read
C8_Witness ==
    /\ C8_Call(C8_String12) /\ pc = "returned"
    /\ ret["sn_ratio"].n = 100


(***************************************************************************)
(* The four readers of io/legacy.py, a step at a time, on sample files.    *)
(***************************************************************************)
\* most records a sample SPEC header declares
MaxRecords == 2

\* text left-justified in n bytes
PadTo(text, n) == Encode(text) \o [i \in 1..(n - Len(text)) |-> 32]

\* twelve bytes that are not ASCII text
BadName == <<255>> \o PadTo(<<"x">>, 11)

GoodName == PadTo(<<"s", "p", "e", "c", "0", "1">>, 12)

\* float32 and float64 patterns
F32Zero == <<0, 0, 0, 0>>

F32NaN == <<0, 0, 192, 127>>

F32Inf == <<0, 0, 128, 127>>

F64One == <<0, 0, 0, 0, 0, 0, 240, 63>>

F64Zero == <<0, 0, 0, 0, 0, 0, 0, 0>>

\* the first n bytes of a file
Truncated(bytes, n) == SubSeq(bytes, 1, n)

\* ---- Bruker files
\* the date block holding day, month, year and the time block holding
\* hour, minute and tenths of seconds
DateBlock(day, month, year) == LE32(day + 64 * month + 4096 * year)

TimeBlock(hour, minute, tenths) == LE32(tenths + 4096 * minute + 262144 * hour)

BrukerHeader(n1, n2, name, date, time) ==
    pack(bruker_header_ffmt,
         ("name" :> name) @@ ("n_points" :> LE32(n1)) @@ ("n_points2" :> LE32(n2))
         @@ ("date_block" :> date) @@ ("time_block" :> time)
         @@ ("waven_begin_i" :> LE32(700)) @@ ("waven_end_i" :> LE32(1400)))

SampleCounts == {<<2, 2>>, <<100, 101>>, <<0, 0>>}

SampleBlocks ==
    {<<DateBlock(5, 3, 2001), TimeBlock(13, 7, 25)>>,
     <<DateBlock(31, 12, 1999), TimeBlock(23, 59, 599)>>,
     <<DateBlock(30, 2, 2001), TimeBlock(1, 2, 30)>>}

BrukerFiles ==
    {BrukerHeader(c[1], c[2], nm, b[1], b[2]) \o SampleStream(k) :
        c \in SampleCounts, nm \in {GoodName, BadName}, b \in SampleBlocks,
        k \in {0, 8}}
    \cup {Truncated(BrukerHeader(2, 2, GoodName, DateBlock(5, 3, 2001),
                                 TimeBlock(13, 7, 25)), BrukerDataOffset - 1)}

\* ---- SPEC files
RecordBase ==
    ("name" :> GoodName)
    @@ ("year_avg" :> LE16(2000)) @@ ("dayofyear_avg" :> LE16(60))
    @@ ("year_begin" :> LE16(2000)) @@ ("dayofyear_begin" :> LE16(60))
    @@ ("year_end" :> LE16(2000)) @@ ("dayofyear_end" :> LE16(61))
    @@ ("temperature" :> LE16(-215)) @@ ("pressure" :> LE16(6543))
    @@ ("relative_humidity" :> <<45>>) @@ ("tropopause_height" :> <<110>>)
    @@ ("resistance" :> LE16(12)) @@ ("n_points" :> LE32(4096))

\* the sample records: an empty one, a plain one, one with the 2-byte
\* sentinels, one with the 1-byte sentinels (-99 and -9 as signed bytes),
\* one with every multi-bit quality field set, and three that do not decode
SampleRecords ==
    << Zeros(calcsize(JoinFmt(spec_record_ffmt))),
       pack(spec_record_ffmt, RecordBase),
       pack(spec_record_ffmt,
            ("temperature" :> LE16(-9999)) @@ ("pressure" :> LE16(-9999))
            @@ ("quality" :> <<1, 0>>) @@ RecordBase),
       pack(spec_record_ffmt,
            ("relative_humidity" :> <<157>>) @@ ("tropopause_height" :> <<247>>)
            @@ ("quality" :> <<128, 0>>) @@ RecordBase),
       pack(spec_record_ffmt, ("quality" :> <<24, 224>>) @@ RecordBase),
       pack(spec_record_ffmt, ("name" :> BadName) @@ RecordBase),
       pack(spec_record_ffmt, ("hour_avg" :> F32NaN) @@ RecordBase),
       pack(spec_record_ffmt,
            ("year_end" :> LE16(9999)) @@ ("dayofyear_end" :> LE16(367))
            @@ RecordBase) >>

\* k records of the samples, from sample number first on
RECURSIVE RecordRun(_, _)
RecordRun(first, k) ==
    IF k = 0 THEN <<>>
    ELSE SampleRecords[((first - 1) % Len(SampleRecords)) + 1]
           \o RecordRun(first + 1, k - 1)

Stamp == PadTo(<<"0", "1", " ", "J", "a", "n", " ", "2", "0", "0", "0", " ",
                 "1", "0", ":", "0", "0", ":", "0", "0">>, 20)

BadStamp == <<200>> \o PadTo(<<>>, 19)

SpecHeader(n, stamp) ==
    pack(spec_header_ffmt,
         ("n_records" :> LE32(n)) @@ ("created_pc" :> Stamp)
         @@ ("modified_pc" :> stamp) @@ ("created_hp1000" :> Zeros(20)))

\* a header, k records and, with cut = 1, the last byte missing
SpecFile(n, stamp, first, k, cut) ==
    LET bytes == SpecHeader(n, stamp) \o RecordRun(first, k)
    IN  Truncated(bytes, Len(bytes) - cut)

SpecFiles ==
    {SpecFile(n, st, first, k, cut) :
        n \in (-1)..MaxRecords, st \in {Stamp, BadStamp},
        first \in 1..Len(SampleRecords), k \in 0..(2 * MaxRecords + 1),
        cut \in {0, 1}}


\* ---- FTS1 files
Fts1Base ==
    ("name" :> GoodName) @@ ("source" :> PadTo(<<"S", "u", "n">>, 10))
    @@ ("ftype" :> PadTo(<<"i", "t", "f">>, 12))
    @@ ("year_begin" :> LE16(1990)) @@ ("dayofyear_begin" :> LE16(365))
    @@ ("year_end" :> LE16(1991)) @@ ("dayofyear_end" :> LE16(1))
    @@ ("opd" :> F64One) @@ ("n_points" :> LE32(2))

\* the sample headers: a plain one, then one per way the post-processing
\* fails, then two whose data are cut differently
SampleFts1Headers ==
    {pack(fts1_header_ffmt, v @@ Fts1Base) :
        v \in {<<>>,
               ("ftype" :> BadName),
               ("year_begin" :> LE16(0)),
               ("hour_avg" :> F32Inf),
               ("opd" :> F64Zero),
               ("n_points" :> LE32(0)),
               ("n_points" :> LE32(-1)),
               ("source" :> PadTo(<<"m", "o", "o", "n">>, 10))}}

\* the header, zeros up to the data offset and k bytes of data
Fts1File(hdr, k) == hdr \o Zeros(Fts1DataOffset - Len(hdr)) \o SampleStream(k)

Fts1Files ==
    {Fts1File(hdr, k) : hdr \in SampleFts1Headers, k \in {8, 13}}
    \cup SampleFts1Headers
    \cup {Truncated(hdr, Len(hdr) - 1) : hdr \in SampleFts1Headers}

\* ---- Rinsland files
\* an 80-character header line
RinslandLine(line) == PadTo(line, RinslandHeaderLen)

SampleLines ==
    {HeaderLine(<<"B", "R", "A">>, nm[1], nm[2],
                <<"0", "1", " ", "J", "a", "n", " ", "2", "0", "0", "0">>,
                <<"1", "0", "0", ".", "0">>, sn) :
        nm \in SampleNames, sn \in {<<"1", "0", "0">>, <<"1", " ", "0">>}}

RinslandDataHdr ==
    pack(rinsland_datahdr_ffmt,
         ("wavenumber_step" :> F64One) @@ ("n_points" :> LE32(2)))

RinslandFiles ==
    {Truncated(RinslandLine(line) \o RinslandDataHdr \o SampleStream(8), n) :
        line \in SampleLines,
        n \in {RinslandHeaderLen - 1, RinslandHeaderLen + 27,
               RinslandHeaderLen + 28, RinslandHeaderLen + 35,
               RinslandHeaderLen + 36}}
    \cup {<<233>> \o Zeros(RinslandHeaderLen + 28)}

Readers == {"read_fts1", "read_bruker", "read_spec", "read_rinsland"}

SampleFiles ==
    [read_fts1 |-> Fts1Files, read_bruker |-> BrukerFiles,
     read_spec |-> SpecFiles, read_rinsland |-> RinslandFiles]

\* reader(filename) is called on a file of its format
Init ==
    /\ op \in Readers
    /\ arg = "filename"
    /\ file \in SampleFiles[op]
    /\ cursor = 0 /\ handles = {}
    /\ pc = "start"
    /\ NoLocals /\ NoResult

\* an exception leaves the call
Raised(e) == pc' = "raised" /\ err' = e /\ ret' = ret

\* open(filename, 'rb') raises: no file of that name
OpenFails ==
    /\ pc \in {"start", "open_data"}
    /\ Raised("FileNotFoundError")
    /\ UNCHANGED <<op, arg, file, cursor, handles, spec, header, records>>

\* the first "with open(filename, 'rb') as f"
Open1 ==
    /\ pc = "start"
    /\ handles' = handles \cup {1} /\ cursor' = 0
    /\ pc' = "header"
    /\ UNCHANGED <<op, arg, file, ret, err, spec, header, records>>

\* the second "with open(filename, 'rb') as f" of read_fts1 and read_bruker
OpenData ==
    /\ pc = "open_data"
    /\ handles' = handles \cup {2} /\ cursor' = 0
    /\ pc' = "data"
    /\ UNCHANGED <<op, arg, file, ret, err, spec, header, records>>

Max(a, b) == IF a > b THEN a ELSE b

\* spec = read_bin_block(f, ffmt) as the whole body of a with-block
ReadHeader(reader, ffmt) ==
    /\ pc = "header" /\ op = reader
    /\ LET r == read_bin_block(file, cursor, ffmt, NoPos, "<")
       IN  /\ cursor' = r.cursor
           /\ handles' = WithExit(handles, 1, ~r.ok)
           /\ IF r.ok
              THEN spec' = r.fields /\ pc' = "post" /\ UNCHANGED <<ret, err>>
              ELSE spec' = spec /\ Raised("struct.error")
    /\ UNCHANGED <<op, arg, file, header, records>>

\* the header post-processing between the two with-blocks
PostHeader(reader, p) ==
    /\ pc = "post" /\ op = reader
    /\ IF p.ok
       THEN spec' = p.spec /\ pc' = "open_data" /\ UNCHANGED <<ret, err>>
       ELSE spec' = spec /\ Raised(p.err)
    /\ UNCHANGED <<op, arg, file, cursor, handles, header, records>>

\* f.seek(offset); np.fromfile(f, dtype='f')
fromfile(bytes, offset) == Floats(FileFrom(bytes, offset))

\* the second with-block: spec['data'] = data, and "return spec"
ReadData(reader, offset, data) ==
    /\ pc = "data" /\ op = reader
    /\ cursor' = Max(offset, Len(file))
    /\ handles' = WithExit(handles, 2, FALSE)
    /\ ret' = Put(spec, "data", data)
    /\ pc' = "returned"
    /\ UNCHANGED <<op, arg, file, err, spec, header, records>>

Fts1ReadHeader == ReadHeader("read_fts1", fts1_header_ffmt)

Fts1Post == PostHeader("read_fts1", fts1_post(spec))

Fts1ReadData ==
    ReadData("read_fts1", Fts1DataOffset,
             Take(fromfile(file, Fts1DataOffset), IntOf(spec["n_points"])))

BrukerReadHeader == ReadHeader("read_bruker", bruker_header_ffmt)

BrukerPost == PostHeader("read_bruker", bruker_post(spec))

BrukerReadData ==
    ReadData("read_bruker", BrukerDataOffset, fromfile(file, BrukerDataOffset))


\* header = read_bin_block(f, spec_header_ffmt) inside read_spec's with-block
SpecReadHeader ==
    /\ pc = "header" /\ op = "read_spec"
    /\ LET r == read_bin_block(file, cursor, spec_header_ffmt, NoPos, "<")
       IN  /\ cursor' = r.cursor
           /\ IF r.ok
              THEN /\ header' = r.fields /\ pc' = "records"
                   /\ UNCHANGED <<handles, ret, err>>
              ELSE /\ header' = header /\ Raised("struct.error")
                   /\ handles' = WithExit(handles, 1, TRUE)
    /\ UNCHANGED <<op, arg, file, spec, records>>

\* one turn of "for r in range(header['n_records'])"
SpecReadPair ==
    /\ pc = "records" /\ op = "read_spec"
    /\ Len(records) < IntOf(header["n_records"])
    /\ LET p == ReadPair(file, cursor)
       IN  /\ cursor' = p.cursor
           /\ IF p.ok
              THEN /\ records' = Append(records, p.kept)
                   /\ UNCHANGED <<pc, handles, ret, err>>
              ELSE /\ records' = records /\ Raised("struct.error")
                   /\ handles' = WithExit(handles, 1, TRUE)
    /\ UNCHANGED <<op, arg, file, spec, header>>

\* the loop is over: the with-block ends
SpecEndWith ==
    /\ pc = "records" /\ op = "read_spec"
    /\ Len(records) >= IntOf(header["n_records"])
    /\ handles' = WithExit(handles, 1, FALSE)
    /\ pc' = "post"
    /\ UNCHANGED <<op, arg, file, cursor, ret, err, spec, header, records>>

\* the header's stamps
SpecPostHeader ==
    /\ pc = "post" /\ op = "read_spec"
    /\ LET p == spec_post_header(header)
       IN  IF p.ok
           THEN header' = p.spec /\ pc' = "post_records" /\ UNCHANGED <<ret, err>>
           ELSE header' = header /\ Raised(p.err)
    /\ UNCHANGED <<op, arg, file, cursor, handles, spec, records>>

\* "for r in records: ..." and "return header, records"
SpecPostRecords ==
    /\ pc = "post_records" /\ op = "read_spec"
    /\ LET p == spec_post_records(records)
       IN  IF p.ok
           THEN /\ records' = p.spec /\ pc' = "returned"
                /\ ret' = [header |-> header, records |-> p.spec] /\ err' = err
           ELSE records' = records /\ Raised(p.err)
    /\ UNCHANGED <<op, arg, file, cursor, handles, spec, header>>

\* spec = read_str_block(struct.unpack('<80s', f.read(80))[0].decode(), ...)
RinslandReadHeader ==
    /\ pc = "header" /\ op = "read_rinsland"
    /\ LET r == rinsland_header(file, cursor)
       IN  /\ cursor' = FileTell(file, cursor, RinslandHeaderLen)
           /\ IF r.ok
              THEN /\ spec' = r.spec /\ pc' = "datahdr"
                   /\ UNCHANGED <<handles, ret, err>>
              ELSE /\ spec' = spec /\ Raised(r.err)
                   /\ handles' = WithExit(handles, 1, TRUE)
    /\ UNCHANGED <<op, arg, file, header, records>>

\* spec.update(read_bin_block(f, rinsland_datahdr_ffmt))
RinslandReadDataHdr ==
    /\ pc = "datahdr" /\ op = "read_rinsland"
    /\ LET r == read_bin_block(file, cursor, rinsland_datahdr_ffmt, NoPos, "<")
       IN  /\ cursor' = r.cursor
           /\ IF r.ok
              THEN /\ spec' = Update(spec, r.fields) /\ pc' = "data"
                   /\ UNCHANGED <<handles, ret, err>>
              ELSE /\ spec' = spec /\ Raised("struct.error")
                   /\ handles' = WithExit(handles, 1, TRUE)
    /\ UNCHANGED <<op, arg, file, header, records>>

\* spec['data'] = np.frombuffer(f.read(), dtype='f'), the with-block's end
RinslandReadData ==
    /\ pc = "data" /\ op = "read_rinsland"
    /\ LET d == frombuffer(FileFrom(file, cursor))
       IN  /\ cursor' = Len(file)
           /\ handles' = WithExit(handles, 1, ~d.ok)
           /\ IF d.ok
              THEN spec' = Put(spec, "data", d.spec) /\ pc' = "post"
                   /\ UNCHANGED <<ret, err>>
              ELSE spec' = spec /\ Raised(d.err)
    /\ UNCHANGED <<op, arg, file, header, records>>

\* datetime_avg and "return spec"
RinslandPost ==
    /\ pc = "post" /\ op = "read_rinsland"
    /\ ret' = rinsland_post(spec)
    /\ pc' = "returned"
    /\ UNCHANGED <<op, arg, file, cursor, handles, err, spec, header, records>>

Next ==
    \/ OpenFails
    \/ Open1
    \/ OpenData
    \/ Fts1ReadHeader
    \/ Fts1Post
    \/ Fts1ReadData
    \/ BrukerReadHeader
    \/ BrukerPost
    \/ BrukerReadData
    \/ SpecReadHeader
    \/ SpecReadPair
    \/ SpecEndWith
    \/ SpecPostHeader
    \/ SpecPostRecords
    \/ RinslandReadHeader
    \/ RinslandReadDataHdr
    \/ RinslandReadData
    \/ RinslandPost

Spec == Init /\ [][Next]_vars


(***************************************************************************)
(* Properties of the readers.  What a file stores is read off its bytes.   *)
(***************************************************************************)
\* the byte b as a signed byte
SignedByte(b) == IF b >= 128 THEN b - 256 ELSE b

\* the width in bytes of the named field of a table
RECURSIVE FieldWidth(_, _)
FieldWidth(ffmt, name) ==
    IF Head(ffmt)[1] = name THEN Width(Head(ffmt)[2])
    ELSE FieldWidth(Tail(ffmt), name)

\* the bytes of the named field in the block laid out by ffmt at offset base
Stored(bytes, base, ffmt, name) ==
    FileRead(bytes, base + FieldOffset(ffmt, name), FieldWidth(ffmt, name))

\* ---- read_bruker
BrukerStored(bytes, name) == Stored(bytes, 0, bruker_header_ffmt, name)

\* the file holds a whole header whose name is text and whose two point
\* counts differ
CountsDiffer(bytes) ==
    /\ Len(bytes) >= calcsize(JoinFmt(bruker_header_ffmt))
    /\ decode(BrukerStored(bytes, "name")).ok
    /\ SignedInt("<", BrukerStored(bytes, "n_points"))
         # SignedInt("<", BrukerStored(bytes, "n_points2"))

\* C1: read_bruker on a header whose two point counts differ ends in the
\* validation error (ValueError) and in nothing else, once the file is open.
C1_AsStated ==
    (op = "read_bruker" /\ CountsDiffer(file) /\ pc \notin {"start", "header"}
        /\ err # "FileNotFoundError")
    => (pc \in {"post", "raised"} /\ (pc = "raised" => err = "ValueError"))

\* the call has ended on such a header
C1_Reached ==
    op = "read_bruker" /\ CountsDiffer(file) /\ pc = "raised"
        /\ err # "FileNotFoundError"


\* ---- read_spec
HeaderSize == calcsize(JoinFmt(spec_header_ffmt))

RecordSize == calcsize(JoinFmt(spec_record_ffmt))

\* the n_records the header of the file declares
Declared(bytes) == SignedInt("<", Stored(bytes, 0, spec_header_ffmt, "n_records"))

\* the bytes of the named field of the k-th record after the header
RecordStored(bytes, k, name) ==
    Stored(bytes, HeaderSize + RecordSize * (k - 1), spec_record_ffmt, name)

\* the k-th record after the header, as read_bin_block reads it there
StoredRecord(bytes, k) ==
    read_bin_block(bytes, 0, spec_record_ffmt,
                   HeaderSize + RecordSize * (k - 1), "<").fields

\* the file holds a header declaring N >= 0 and at least 2N records
HoldsPairs(bytes) ==
    /\ Len(bytes) >= HeaderSize
    /\ Declared(bytes) >= 0
    /\ Len(bytes) >= HeaderSize + 2 * Declared(bytes) * RecordSize

\* C4: on a file declaring N >= 0 records and holding at least 2N, no read
\* of read_spec comes up short; when the with-block is left the cursor is
\* past exactly 2N records and the N records kept are the 2nd, 4th, ...
\* of the stream, in order; the records returned are those post-processed.
C4_PairedRecords ==
    (op = "read_spec" /\ HoldsPairs(file)) =>
        LET N == Declared(file)
        IN  /\ ~(pc = "raised" /\ err = "struct.error")
            /\ pc = "records" => /\ Len(records) <= N
                                 /\ cursor = HeaderSize + 2 * Len(records) * RecordSize
            /\ (pc \in {"post", "post_records", "returned"}
                  \/ (pc = "raised" /\ err # "FileNotFoundError"))
               => cursor = HeaderSize + 2 * N * RecordSize
            /\ pc \in {"post", "post_records"}
               => /\ Len(records) = N
                  /\ \A i \in 1..N : records[i] = StoredRecord(file, 2 * i)
            /\ pc = "returned"
               => /\ Len(ret.records) = N
                  /\ \A i \in 1..N :
                        ret.records[i] = spec_post_record(StoredRecord(file, 2 * i)).spec

\* read_spec returned the most records a sample header declares, from pairs
\* whose two records differ
C4_Witness ==
    /\ op = "read_spec" /\ pc = "returned" /\ HoldsPairs(file)
    /\ Declared(file) >= 2 /\ Len(ret.records) = Declared(file)
    /\ \A i \in 1..Declared(file) :
          StoredRecord(file, 2 * i - 1) # StoredRecord(file, 2 * i)

\* C5: no handle is open between the with-blocks of a reader, nor once the
\* call has ended, by a return or by an exception.
C5_HandlesClosed ==
    pc \in {"post", "post_records", "open_data", "returned", "raised"}
        => handles = {}

\* a read inside a with-block came up short and the call ended
C5_Witness ==
    /\ pc = "raised" /\ err = "struct.error" /\ cursor > 0 /\ handles = {}

\* the value returned for a sentinel-bearing field is undefined exactly when
\* the stored value is the sentinel
MapsSentinel(stored, sentinel, returned) == (stored = sentinel) <=> (returned = NaN)

\* C6: in every record read_spec returns, temperature and pressure are NaN
\* exactly when stored as -9999, relative_humidity exactly when stored as
\* the signed byte -99 and tropopause_height exactly when stored as the
\* signed byte -9.
C6_AsStated ==
    (op = "read_spec" /\ pc = "returned") =>
        \A i \in 1..Len(ret.records) :
            LET r == ret.records[i]
                Raw(name) == RecordStored(file, 2 * i, name)
            IN  /\ MapsSentinel(SignedInt("<", Raw("temperature")), -9999,
                                r["temperature"])
                /\ MapsSentinel(SignedInt("<", Raw("pressure")), -9999, r["pressure"])
                /\ MapsSentinel(SignedByte(Raw("relative_humidity")[1]), -99,
                                r["relative_humidity"])
                /\ MapsSentinel(SignedByte(Raw("tropopause_height")[1]), -9,
                                r["tropopause_height"])

\* read_spec returned a record that stores -99 as relative_humidity
C6_Reached ==
    /\ op = "read_spec" /\ pc = "returned"
    /\ \E i \in 1..Len(ret.records) :
          SignedByte(RecordStored(file, 2 * i, "relative_humidity")[1]) = -99

\* the booleans read_spec decodes from quality, is_sun_centered apart
OtherFlags ==
    {"is_mean_spectrum", "is_bad_zero", "has_bad_sn_ratio", "has_bad_ils",
     "has_pollution", "has_slow_signal_variation", "has_fast_signal_variation",
     "has_technical_problem"}

\* the quality bytes with bit 0 set and every other bit clear
OnlyBit0 == <<1, 0>>

\* what C7 says of a decoded record but for is_sun_centered
BadSpectrumOnly(r) ==
    /\ r["is_bad_spectrum"] = BoolVal(TRUE)
    /\ \A k \in OtherFlags : r[k] = BoolVal(FALSE)
    /\ r["fringing_level"] = IntVal(0)
    /\ r["weather_id"] = IntVal(0)

\* C7 as stated: is_sun_centered is false too.
C7_AsStated ==
    (op = "read_spec" /\ pc = "returned") =>
        \A i \in 1..Len(ret.records) :
            RecordStored(file, 2 * i, "quality") = OnlyBit0
            => /\ BadSpectrumOnly(ret.records[i])
               /\ ret.records[i]["is_sun_centered"] = BoolVal(FALSE)

\* C7: for the quality pattern with bit 0 set and every other bit clear the
\* returned record has is_bad_spectrum true, the other flags false except
\* is_sun_centered, which is true (bit 7 is inverted), fringing_level 0 and
\* weather_id 0.
C7_Amended ==
    (op = "read_spec" /\ pc = "returned") =>
        \A i \in 1..Len(ret.records) :
            RecordStored(file, 2 * i, "quality") = OnlyBit0
            => /\ BadSpectrumOnly(ret.records[i])
               /\ ret.records[i]["is_sun_centered"] = BoolVal(TRUE)

\* read_spec returned a record whose quality is that pattern
C7_Witness ==
    /\ op = "read_spec" /\ pc = "returned"
    /\ \E i \in 1..Len(ret.records) : RecordStored(file, 2 * i, "quality") = OnlyBit0


\* ---- read_bruker's date
\* bit k of a block, the bits of each byte taken least significant first
\* (plain) or most significant first (swapped)
BitAt(block, k, swapped) ==
    (block[(k \div 8) + 1] \div Pow2(IF swapped THEN 7 - (k % 8) ELSE k % 8)) % 2

\* the integer bits a..b-1 write, the first bit the least significant
RECURSIVE FirstBitLeast(_, _, _, _)
FirstBitLeast(block, a, b, swapped) ==
    IF a >= b THEN 0
    ELSE BitAt(block, a, swapped) + 2 * FirstBitLeast(block, a + 1, b, swapped)

\* the integer bits a..b-1 write, the first bit the most significant
RECURSIVE FirstBitMost(_, _, _, _)
FirstBitMost(block, a, b, swapped) ==
    IF a >= b THEN 0
    ELSE 2 * FirstBitMost(block, a, b - 1, swapped) + BitAt(block, b - 1, swapped)

\* the integers one may read from a bit range, in either direction
Readings(block, a, b, swapped) ==
    {FirstBitLeast(block, a, b, swapped), FirstBitMost(block, a, b, swapped)}

\* read_bruker is past the date decoding
DateDecoded == op = "read_bruker" /\ pc \in {"open_data", "data", "returned"}

\* C10 as stated: the blocks' bits swapped within each byte; day, month and
\* year read from [0:6), [6:12), [12:24) of the date block, hour and minute
\* from [12:18) and [18:24) of the time block.
C10_AsStated ==
    DateDecoded =>
        LET date == BrukerStored(file, "date_block")
            time == BrukerStored(file, "time_block")
            dt == spec["datetime_avg"]
        IN  /\ dt.day \in Readings(date, 0, 6, TRUE)
            /\ dt.month \in Readings(date, 6, 12, TRUE)
            /\ dt.year \in Readings(date, 12, 24, TRUE)
            /\ dt.hour \in Readings(time, 12, 18, TRUE)
            /\ dt.minute \in Readings(time, 18, 24, TRUE)

\* C10: the blocks' bits are taken least significant first within each byte
\* and each range is read with its first bit the least significant; day,
\* month and year come from [0:6), [6:12), [12:24) of the date block, minute
\* from [12:18) and hour from [18:24) of the time block.
C10_Amended ==
    DateDecoded =>
        LET date == BrukerStored(file, "date_block")
            time == BrukerStored(file, "time_block")
            dt == spec["datetime_avg"]
        IN  /\ dt.day = FirstBitLeast(date, 0, 6, FALSE)
            /\ dt.month = FirstBitLeast(date, 6, 12, FALSE)
            /\ dt.year = FirstBitLeast(date, 12, 24, FALSE)
            /\ dt.minute = FirstBitLeast(time, 12, 18, FALSE)
            /\ dt.hour = FirstBitLeast(time, 18, 24, FALSE)

\* read_bruker returned the date 5 March 2001, 13:07 of the sample blocks
C10_Witness ==
    /\ op = "read_bruker" /\ pc = "returned"
    /\ BrukerStored(file, "date_block") = DateBlock(5, 3, 2001)
    /\ BrukerStored(file, "time_block") = TimeBlock(13, 7, 25)
    /\ LET dt == ret["datetime_avg"]
       IN  <<dt.day, dt.month, dt.year, dt.hour, dt.minute>> = <<5, 3, 2001, 13, 7>>


\* ---- read_spec's header block
\* read_spec has read the header and k pairs of records, and is in the loop
InLoopAfter(k) == op = "read_spec" /\ pc = "records" /\ Len(records) = k

\* the record read_bin_block finds at byte offset off of the file
RecordAt(bytes, off) == read_bin_block(bytes, 0, spec_record_ffmt, off, "<").fields

\* C11 as stated: the header read consumes 84 bytes, so the first record of
\* the first pair is read from byte offset 84.
C11_AsStated ==
    /\ InLoopAfter(0) => cursor = 84
    /\ InLoopAfter(1) => /\ cursor = 84 + 2 * RecordSize
                         /\ records[1] = RecordAt(file, 84 + RecordSize)

\* C11: the header read consumes a fixed 128-byte block (the 4-byte record
\* count, four 20-byte stamps and 44 bytes of padding), so the first record
\* of the first pair is read from byte offset 128 and the kept second one
\* from the offset one record further.
C11_Amended ==
    /\ calcsize(JoinFmt(spec_header_ffmt)) = 4 + 4 * 20 + 44
    /\ InLoopAfter(0) => cursor = 128
    /\ InLoopAfter(1) => /\ cursor = 128 + 2 * RecordSize
                         /\ records[1] = RecordAt(file, 128 + RecordSize)

\* read_spec has read the header and the first pair of a file whose first
\* two records differ
C11_Witness ==
    /\ InLoopAfter(1)
    /\ RecordAt(file, 128) # RecordAt(file, 128 + RecordSize)

====
